---------------------------- MODULE Spec2Model ----------------------------
(***************************************************************************)
(* The reStructuredText docstring parser of pytkdocs                       *)
(* (src/pytkdocs/parsers/docstrings/restructured_text.py).                 *)
(*                                                                         *)
(* A string is a sequence of one-character strings, so that startswith,    *)
(* split, strip and join are computed as Python computes them.  Indices    *)
(* into `lines` are 0-based as in the source: line i is lines[i + 1].      *)
(***************************************************************************)
EXTENDS Integers, Sequences, FiniteSets, TLC

VARIABLES
    pc,               \* "idle" | "scan" | "returned" | "raised": where parse_sections is
    typed_context,    \* self._typed_context
    parsed_values,    \* self._parsed_values
    lines,            \* local `lines` of parse_sections
    curr_line_index,  \* local `curr_line_index` of parse_sections
    errors,           \* self.errors
    result,           \* the value parse_sections returned
    calls,            \* history: the reader calls of the current parse, in order
    last_type,        \* history: argument and result of the last type consolidation
    parses            \* history: the parse_sections calls of this parser, in order

vars == <<pc, typed_context, parsed_values, lines, curr_line_index, errors,
          result, calls, last_type, parses>>

---------------------------------------------------------------------------
(* Bounds of the model.                                                    *)

\* The longest docstring, in lines.
MaxLines == 3

\* The longest docstring parsed by a parser that is used again, in lines.
MaxReuseLines == 2

\* The number of parse_sections calls made on one parser that is used again.
MaxParses == 2

---------------------------------------------------------------------------
(* Python's str methods on sequences of characters.                        *)

\* str.strip() with no argument strips whitespace.
Whitespace == {" ", "\n", "\t"}

startswith(s, prefix) ==
    /\ Len(s) >= Len(prefix)
    /\ SubSeq(s, 1, Len(prefix)) = prefix

RECURSIVE lstrip_chars(_, _)
lstrip_chars(s, chars) ==
    IF s # <<>> /\ Head(s) \in chars THEN lstrip_chars(Tail(s), chars) ELSE s

RECURSIVE rstrip_chars(_, _)
rstrip_chars(s, chars) ==
    IF s # <<>> /\ s[Len(s)] \in chars
    THEN rstrip_chars(SubSeq(s, 1, Len(s) - 1), chars)
    ELSE s

lstrip(s) == lstrip_chars(s, Whitespace)

strip(s) == rstrip_chars(lstrip_chars(s, Whitespace), Whitespace)

\* str.find: the least 1-based position of sep in s, 0 when there is none.
find(s, sep) ==
    LET hits == {i \in 1..(Len(s) - Len(sep) + 1) : SubSeq(s, i, i + Len(sep) - 1) = sep}
    IN IF hits = {} THEN 0 ELSE CHOOSE i \in hits : \A j \in hits : i <= j

\* str.split(sep, maxsplit); maxsplit = -1 is "no limit".
RECURSIVE split(_, _, _)
split(s, sep, maxsplit) ==
    LET i == find(s, sep)
    IN IF maxsplit = 0 \/ i = 0
       THEN <<s>>
       ELSE <<SubSeq(s, 1, i - 1)>>
            \o split(SubSeq(s, i + Len(sep), Len(s)), sep, maxsplit - 1)

\* sep.join(parts)
RECURSIVE join(_, _)
join(sep, parts) ==
    IF parts = <<>> THEN <<>>
    ELSE IF Len(parts) = 1 THEN parts[1]
    ELSE parts[1] \o sep \o join(sep, Tail(parts))

---------------------------------------------------------------------------
(* Values that are not strings.  Each is a one-element sequence whose      *)
(* element is no character, so it differs from every string.               *)

\* base.empty (inspect.Signature.empty): "no annotation", "no default", "no kind".
empty == <<"<empty>">>

\* Python's None.
None == <<"<None>">>

\* Type objects and values a signature or a context can carry.
ClassInt == <<"<class 'int'>">>
ClassStr == <<"<class 'str'>">>
ClassFloat == <<"<class 'float'>">>
ClassBool == <<"<class 'bool'>">>
DefaultZero == <<"<0>">>
PositionalOrKeyword == <<"<POSITIONAL_OR_KEYWORD>">>

---------------------------------------------------------------------------
(* Insertion-ordered dict: a sequence of [key, value] pairs with distinct  *)
(* keys, in insertion order.                                               *)

dict_has(d, key) == \E i \in 1..Len(d) : d[i].key = key

\* dict.get(key): the value, or None.
dict_get(d, key) ==
    IF dict_has(d, key)
    THEN d[CHOOSE i \in 1..Len(d) : d[i].key = key].value
    ELSE None

\* d[key] = value: a new key goes last, a present key keeps its place.
dict_set(d, key, value) ==
    IF dict_has(d, key)
    THEN [i \in 1..Len(d) |-> IF d[i].key = key THEN [key |-> key, value |-> value] ELSE d[i]]
    ELSE Append(d, [key |-> key, value |-> value])

\* list(d.values())
dict_values(d) == [i \in 1..Len(d) |-> d[i].value]

---------------------------------------------------------------------------
(* Directive names and the field registry.                                 *)

PARAM_NAMES ==
    { <<"p", "a", "r", "a", "m">>,
      <<"p", "a", "r", "a", "m", "e", "t", "e", "r">>,
      <<"a", "r", "g">>,
      <<"a", "r", "g", "u", "m", "e", "n", "t">>,
      <<"k", "e", "y">>,
      <<"k", "e", "y", "w", "o", "r", "d">> }

PARAM_TYPE_NAMES == { <<"t", "y", "p", "e">> }

ATTRIBUTE_NAMES ==
    { <<"v", "a", "r">>, <<"i", "v", "a", "r">>, <<"c", "v", "a", "r">> }

ATTRIBUTE_TYPE_NAMES == { <<"v", "a", "r", "t", "y", "p", "e">> }

RETURN_NAMES ==
    { <<"r", "e", "t", "u", "r", "n", "s">>, <<"r", "e", "t", "u", "r", "n">> }

RETURN_TYPE_NAMES == { <<"r", "t", "y", "p", "e">> }

EXCEPTION_NAMES ==
    { <<"r", "a", "i", "s", "e", "s">>,
      <<"r", "a", "i", "s", "e">>,
      <<"e", "x", "c", "e", "p", "t">>,
      <<"e", "x", "c", "e", "p", "t", "i", "o", "n">> }

\* FieldType.matches
matches(field_type, line) ==
    \E name \in field_type.names : startswith(line, <<":">> \o name)

\* self.field_types, in the order of __init__.
field_types ==
    << [names |-> PARAM_TYPE_NAMES, reader |-> "_read_parameter_type"],
       [names |-> PARAM_NAMES, reader |-> "_read_parameter"],
       [names |-> ATTRIBUTE_TYPE_NAMES, reader |-> "_read_attribute_type"],
       [names |-> ATTRIBUTE_NAMES, reader |-> "_read_attribute"],
       [names |-> EXCEPTION_NAMES, reader |-> "_read_exception"],
       [names |-> RETURN_NAMES, reader |-> "_read_return"],
       [names |-> RETURN_TYPE_NAMES, reader |-> "_read_return_type"] >>

\* Mutation of the loop over self.field_types: it does not break at the first
\* match, so the reader of the last field type that matches is the one called.
dispatch_last_match(line) ==
    LET hits == {k \in 1..Len(field_types) : matches(field_types[k], line)}
    IN IF hits = {}
       THEN "_append_description"
       ELSE field_types[CHOOSE k \in hits : \A j \in hits : k >= j].reader

\* The `for field_type in self.field_types: if field_type.matches(line): ... break`
\* of parse_sections: the reader of the first field type that matches, or
\* "_append_description" for the loop's else branch.
dispatch(line) ==
    LET hits == {k \in 1..Len(field_types) : matches(field_types[k], line)}
    IN IF hits = {}
       THEN "_append_description"
       ELSE field_types[CHOOSE k \in hits : \A j \in hits : k <= j].reader

---------------------------------------------------------------------------
(* The data model.                                                         *)

\* ParseContext(obj).__post_init__.  obj is the caller's context dict, given as a
\* record: `signature` is an Optional held as a sequence of at most one Signature
\* (<<>> is None), `type` is None when the dict has no "type" key, and
\* `attributes` is a dict (the defaultdict starts empty and is updated with it).
ParseContext(obj) ==
    [ attributes |-> obj.attributes,
      signature  |-> obj.signature,
      annotation |-> IF obj.type # None THEN obj.type ELSE empty ]

\* ParsedValues(): return_value is an Optional, held as a sequence of at most
\* one AnnotatedObject (<<>> is None).
ParsedValues ==
    [ description     |-> <<>>,
      parameters      |-> <<>>,
      param_types     |-> <<>>,
      attributes      |-> <<>>,
      attribute_types |-> <<>>,
      exceptions      |-> <<>>,
      return_value    |-> <<>>,
      return_type     |-> None ]

AnnotatedObject(annotation, description) ==
    [annotation |-> annotation, description |-> description]

\* Parser.error(message): the message is appended to self.errors.  A message is
\* its fixed text and the value its f-string interpolates.
error(errs, message, about) == Append(errs, [message |-> message, about |-> about])

---------------------------------------------------------------------------
(* Module-level functions.                                                 *)

\* The while loop of _consolidate_continuation_lines, from curr_line_index on:
\* the value of curr_line_index when the loop ends.
RECURSIVE continuation_end(_, _)
continuation_end(ls, curr) ==
    IF curr < Len(ls) /\ ~startswith(ls[curr + 1], <<":">>)
    THEN continuation_end(ls, curr + 1)
    ELSE curr

\* Mutation of _consolidate_continuation_lines: the index returned is the one
\* the loop stopped at, not the last line consumed.
consolidate_continuation_lines_past_last(ls, start_index) ==
    IF start_index >= Len(ls)
    THEN [line |-> <<>>, next_index |-> start_index]
    ELSE LET stop  == continuation_end(ls, start_index + 1)
             block == [k \in 1..(stop - start_index) |-> lstrip(ls[start_index + k])]
         IN [ line       |-> rstrip_chars(join(<<" ">>, block), {"\n"}),
              next_index |-> stop ]

\* Mutation of _consolidate_continuation_lines: the loop stops at a line that
\* begins with ":" once it is left-stripped.
RECURSIVE continuation_end_stripped(_, _)
continuation_end_stripped(ls, curr) ==
    IF curr < Len(ls) /\ ~startswith(lstrip(ls[curr + 1]), <<":">>)
    THEN continuation_end_stripped(ls, curr + 1)
    ELSE curr

consolidate_continuation_lines_stripped(ls, start_index) ==
    IF start_index >= Len(ls)
    THEN [line |-> <<>>, next_index |-> start_index]
    ELSE LET stop  == continuation_end_stripped(ls, start_index + 1)
             block == [k \in 1..(stop - start_index) |-> lstrip(ls[start_index + k])]
         IN [ line       |-> rstrip_chars(join(<<" ">>, block), {"\n"}),
              next_index |-> stop - 1 ]

\* Mutation of _consolidate_continuation_lines: the index returned is the start
\* index, so the continuation lines it joined are left to the scan loop.
consolidate_continuation_lines_returns_start(ls, start_index) ==
    IF start_index >= Len(ls)
    THEN [line |-> <<>>, next_index |-> start_index]
    ELSE LET stop  == continuation_end(ls, start_index + 1)
             block == [k \in 1..(stop - start_index) |-> lstrip(ls[start_index + k])]
         IN [ line       |-> rstrip_chars(join(<<" ">>, block), {"\n"}),
              next_index |-> start_index ]

consolidate_continuation_lines(ls, start_index) ==
    IF start_index >= Len(ls)
    THEN [line |-> <<>>, next_index |-> start_index]
    ELSE LET stop  == continuation_end(ls, start_index + 1)
             block == [k \in 1..(stop - start_index) |-> lstrip(ls[start_index + k])]
         IN [ line       |-> rstrip_chars(join(<<" ">>, block), {"\n"}),
              next_index |-> stop - 1 ]

consolidate_descriptive_type(descriptive_type) ==
    LET parts == split(descriptive_type, <<"o", "r">>, -1)
        types == [k \in 1..Len(parts) |-> strip(parts[k])]
        Optional(t) == <<"O", "p", "t", "i", "o", "n", "a", "l", "[">> \o t \o <<"]">>
    IN IF Len(parts) = 1 THEN descriptive_type
       ELSE IF Len(types) = 2 /\ types[1] = <<"N", "o", "n", "e">> THEN Optional(types[2])
       ELSE IF Len(types) = 2 /\ types[2] = <<"N", "o", "n", "e">> THEN Optional(types[1])
       ELSE <<"U", "n", "i", "o", "n", "[">> \o join(<<",">>, types) \o <<"]">>

---------------------------------------------------------------------------
(* Methods of RestructuredText that do not touch the line cursor.  Each    *)
(* takes the state it reads and returns the state it leaves.               *)

\* _parse_directive: `invalid` tells a FailedParsedDirective from a
\* ParsedDirective; line.split(":", 2) unpacks into three names or raises
\* ValueError.
parse_directive(ls, start_index, errs) ==
    LET joined == consolidate_continuation_lines(ls, start_index)
        parts  == split(joined.line, <<":">>, 2)
    IN IF Len(parts) # 3
       THEN [ invalid         |-> TRUE,
              line            |-> joined.line,
              next_index      |-> joined.next_index,
              directive_parts |-> <<>>,
              value           |-> <<>>,
              errors          |-> error(errs, "Failed to get ':directive: value' pair from", joined.line) ]
       ELSE [ invalid         |-> FALSE,
              line            |-> joined.line,
              next_index      |-> joined.next_index,
              directive_parts |-> split(parts[2], <<" ">>, -1),
              value           |-> strip(parts[3]),
              errors          |-> errs ]

\* signature.parameters.get(name.lstrip("*")), as a sequence of at most one
\* parameter of the signature.
signature_parameter(signature, name) ==
    LET key == lstrip_chars(name, {"*"})
    IN IF dict_has(signature.parameters, key)
       THEN <<dict_get(signature.parameters, key)>>
       ELSE <<>>

\* _determine_param_details
determine_param_details(ctx, name) ==
    LET found == IF ctx.signature # <<>>
                 THEN signature_parameter(ctx.signature[1], name)
                 ELSE <<>>
    IN IF found # <<>>
       THEN [ default |-> IF found[1].default # empty THEN found[1].default ELSE empty,
              kind    |-> found[1].kind ]
       ELSE [default |-> empty, kind |-> empty]

\* Mutation of _determine_param_annotation: the staged `:type` value is applied
\* after the inline type, so it wins over it.
determine_param_annotation_type_wins(pv, ctx, errs, name, directive_type) ==
    LET parsed_param_type == dict_get(pv.param_types, name)
        from_inline == IF directive_type # None THEN directive_type ELSE empty
        from_type   == IF parsed_param_type # None THEN parsed_param_type ELSE from_inline
        errs1 == IF directive_type # None /\ parsed_param_type # None
                 THEN error(errs, "Duplicate parameter information for", name)
                 ELSE errs
        found == IF ctx.signature # <<>>
                 THEN signature_parameter(ctx.signature[1], name)
                 ELSE <<>>
    IN IF ctx.signature = <<>>
       THEN [annotation |-> from_type, errors |-> errs1]
       ELSE IF found = <<>>
       THEN [ annotation |-> from_type,
              errors     |-> error(errs1, "No matching parameter for", name) ]
       ELSE [ annotation |-> IF found[1].annotation # empty
                             THEN found[1].annotation
                             ELSE from_type,
              errors     |-> errs1 ]

\* Mutation of _determine_param_annotation: an inline type together with a
\* staged `:type` value is not reported.
determine_param_annotation_silent(pv, ctx, errs, name, directive_type) ==
    LET parsed_param_type == dict_get(pv.param_types, name)
        from_type   == IF parsed_param_type # None THEN parsed_param_type ELSE empty
        from_inline == IF directive_type # None THEN directive_type ELSE from_type
        found == IF ctx.signature # <<>>
                 THEN signature_parameter(ctx.signature[1], name)
                 ELSE <<>>
    IN IF ctx.signature = <<>>
       THEN [annotation |-> from_inline, errors |-> errs]
       ELSE IF found = <<>>
       THEN [ annotation |-> from_inline,
              errors     |-> error(errs, "No matching parameter for", name) ]
       ELSE [ annotation |-> IF found[1].annotation # empty
                             THEN found[1].annotation
                             ELSE from_inline,
              errors     |-> errs ]

\* _determine_param_annotation; directive_type is None for the 2-token form.
determine_param_annotation(pv, ctx, errs, name, directive_type) ==
    LET parsed_param_type == dict_get(pv.param_types, name)
        from_type   == IF parsed_param_type # None THEN parsed_param_type ELSE empty
        from_inline == IF directive_type # None THEN directive_type ELSE from_type
        errs1 == IF directive_type # None /\ parsed_param_type # None
                 THEN error(errs, "Duplicate parameter information for", name)
                 ELSE errs
        found == IF ctx.signature # <<>>
                 THEN signature_parameter(ctx.signature[1], name)
                 ELSE <<>>
    IN IF ctx.signature = <<>>
       THEN [annotation |-> from_inline, errors |-> errs1]
       ELSE IF found = <<>>
       THEN [ annotation |-> from_inline,
              errors     |-> error(errs1, "No matching parameter for", name) ]
       ELSE [ annotation |-> IF found[1].annotation # empty
                             THEN found[1].annotation
                             ELSE from_inline,
              errors     |-> errs1 ]

\* What a reader leaves: the accumulator, the errors, the directive it parsed
\* (whose next_index it returns) and, when it consolidated a type, that call.
outcome(pv, errs, directive, typed) ==
    [parsed_values |-> pv, errors |-> errs, directive |-> directive, typed |-> typed]

Parameter(name, annotation, description, default, kind) ==
    [ name        |-> name,
      annotation  |-> annotation,
      description |-> description,
      default     |-> default,
      kind        |-> kind ]

Attribute(name, annotation, description) ==
    [name |-> name, annotation |-> annotation, description |-> description]

\* Mutation of _read_parameter: no check for a name already in the map, so a
\* second directive replaces the stored Parameter.
read_parameter_overwrites(pv, ctx, errs, ls, start_index) ==
    LET pd == parse_directive(ls, start_index, errs)
        n  == Len(pd.directive_parts)
        directive_type == IF n = 3 THEN pd.directive_parts[2] ELSE None
        name == IF n = 2 THEN pd.directive_parts[2] ELSE pd.directive_parts[3]
        resolved == determine_param_annotation(pv, ctx, pd.errors, name, directive_type)
        details  == determine_param_details(ctx, name)
    IN IF pd.invalid
       THEN outcome(pv, pd.errors, pd, <<>>)
       ELSE IF n # 2 /\ n # 3
       THEN outcome(pv, error(pd.errors, "Failed to parse field directive from", pd.line),
                    pd, <<>>)
       ELSE outcome([pv EXCEPT !.parameters =
                         dict_set(@, name, Parameter(name, resolved.annotation, pd.value,
                                                     details.default, details.kind))],
                    resolved.errors, pd, <<>>)

\* _read_parameter
read_parameter(pv, ctx, errs, ls, start_index) ==
    LET pd == parse_directive(ls, start_index, errs)
        n  == Len(pd.directive_parts)
        directive_type == IF n = 3 THEN pd.directive_parts[2] ELSE None
        name == IF n = 2 THEN pd.directive_parts[2] ELSE pd.directive_parts[3]
        resolved == determine_param_annotation(pv, ctx, pd.errors, name, directive_type)
        details  == determine_param_details(ctx, name)
    IN IF pd.invalid
       THEN outcome(pv, pd.errors, pd, <<>>)
       ELSE IF n # 2 /\ n # 3
       THEN outcome(pv, error(pd.errors, "Failed to parse field directive from", pd.line),
                    pd, <<>>)
       ELSE IF dict_has(pv.parameters, name)
       THEN outcome(pv, error(pd.errors, "Duplicate parameter entry for", name), pd, <<>>)
       ELSE outcome([pv EXCEPT !.parameters =
                         dict_set(@, name, Parameter(name, resolved.annotation, pd.value,
                                                     details.default, details.kind))],
                    resolved.errors, pd, <<>>)

\* Mutation of _read_parameter_type: the type is written to a Parameter that
\* already has an annotation, and nothing is reported.
read_parameter_type_overwrites(pv, ctx, errs, ls, start_index) ==
    LET pd == parse_directive(ls, start_index, errs)
        descriptive == strip(pd.value)
        param_type  == consolidate_descriptive_type(descriptive)
        typed       == <<[descriptive_type |-> descriptive, consolidated |-> param_type]>>
        param_name  == pd.directive_parts[2]
        staged      == [pv EXCEPT !.param_types = dict_set(@, param_name, param_type)]
        param       == dict_get(pv.parameters, param_name)
    IN IF pd.invalid
       THEN outcome(pv, pd.errors, pd, <<>>)
       ELSE IF Len(pd.directive_parts) # 2
       THEN outcome(pv, error(pd.errors, "Failed to get parameter name from", pd.line),
                    pd, typed)
       ELSE IF ~dict_has(pv.parameters, param_name)
       THEN outcome(staged, pd.errors, pd, typed)
       ELSE outcome([staged EXCEPT !.parameters =
                         dict_set(@, param_name, [param EXCEPT !.annotation = param_type])],
                    pd.errors, pd, typed)

\* Mutation of _read_parameter_type: the type is staged before the token count
\* is checked, so a directive with a wrong token count stages it too.
read_parameter_type_stages_unchecked(pv, ctx, errs, ls, start_index) ==
    LET pd == parse_directive(ls, start_index, errs)
        descriptive == strip(pd.value)
        param_type  == consolidate_descriptive_type(descriptive)
        typed       == <<[descriptive_type |-> descriptive, consolidated |-> param_type]>>
        param_name  == pd.directive_parts[2]
        staged      == [pv EXCEPT !.param_types = dict_set(@, param_name, param_type)]
        param       == dict_get(pv.parameters, param_name)
    IN IF pd.invalid
       THEN outcome(pv, pd.errors, pd, <<>>)
       ELSE IF Len(pd.directive_parts) # 2
       THEN outcome(staged, error(pd.errors, "Failed to get parameter name from", pd.line),
                    pd, typed)
       ELSE IF ~dict_has(pv.parameters, param_name)
       THEN outcome(staged, pd.errors, pd, typed)
       ELSE IF param.annotation = empty
       THEN outcome([staged EXCEPT !.parameters =
                         dict_set(@, param_name, [param EXCEPT !.annotation = param_type])],
                    pd.errors, pd, typed)
       ELSE outcome(staged, error(pd.errors, "Duplicate parameter information for", param_name),
                    pd, typed)

\* _read_parameter_type
read_parameter_type(pv, ctx, errs, ls, start_index) ==
    LET pd == parse_directive(ls, start_index, errs)
        descriptive == strip(pd.value)
        param_type  == consolidate_descriptive_type(descriptive)
        typed       == <<[descriptive_type |-> descriptive, consolidated |-> param_type]>>
        param_name  == pd.directive_parts[2]
        staged      == [pv EXCEPT !.param_types = dict_set(@, param_name, param_type)]
        param       == dict_get(pv.parameters, param_name)
    IN IF pd.invalid
       THEN outcome(pv, pd.errors, pd, <<>>)
       ELSE IF Len(pd.directive_parts) # 2
       THEN outcome(pv, error(pd.errors, "Failed to get parameter name from", pd.line),
                    pd, typed)
       ELSE IF ~dict_has(pv.parameters, param_name)
       THEN outcome(staged, pd.errors, pd, typed)
       ELSE IF param.annotation = empty
       THEN outcome([staged EXCEPT !.parameters =
                         dict_set(@, param_name, [param EXCEPT !.annotation = param_type])],
                    pd.errors, pd, typed)
       ELSE outcome(staged, error(pd.errors, "Duplicate parameter information for", param_name),
                    pd, typed)

\* self._typed_context.attributes[name].get("annotation"): the defaultdict gives
\* an empty AttributesDict, hence None, for a name the context does not know.
context_attribute_annotation(ctx, name) ==
    IF dict_has(ctx.attributes, name)
    THEN dict_get(ctx.attributes, name).annotation
    ELSE None

\* Mutation of _read_attribute: a second directive for a name is reported and
\* its Attribute replaces the registered one.
read_attribute_overwrites(pv, ctx, errs, ls, start_index) ==
    LET pd == parse_directive(ls, start_index, errs)
        name == pd.directive_parts[2]
        parsed_attribute_type == dict_get(pv.attribute_types, name)
        from_type  == IF parsed_attribute_type # None THEN parsed_attribute_type ELSE empty
        from_ctx   == context_attribute_annotation(ctx, name)
        annotation == IF from_ctx # None THEN from_ctx ELSE from_type
        stored     == [pv EXCEPT !.attributes =
                          dict_set(@, name, Attribute(name, annotation, pd.value))]
    IN IF pd.invalid
       THEN outcome(pv, pd.errors, pd, <<>>)
       ELSE IF Len(pd.directive_parts) # 2
       THEN outcome(pv, error(pd.errors, "Failed to parse field directive from", pd.line),
                    pd, <<>>)
       ELSE IF dict_has(pv.attributes, name)
       THEN outcome(stored, error(pd.errors, "Duplicate attribute entry for", name), pd, <<>>)
       ELSE outcome(stored, pd.errors, pd, <<>>)

\* _read_attribute
read_attribute(pv, ctx, errs, ls, start_index) ==
    LET pd == parse_directive(ls, start_index, errs)
        name == pd.directive_parts[2]
        parsed_attribute_type == dict_get(pv.attribute_types, name)
        from_type  == IF parsed_attribute_type # None THEN parsed_attribute_type ELSE empty
        from_ctx   == context_attribute_annotation(ctx, name)
        annotation == IF from_ctx # None THEN from_ctx ELSE from_type
    IN IF pd.invalid
       THEN outcome(pv, pd.errors, pd, <<>>)
       ELSE IF Len(pd.directive_parts) # 2
       THEN outcome(pv, error(pd.errors, "Failed to parse field directive from", pd.line),
                    pd, <<>>)
       ELSE IF dict_has(pv.attributes, name)
       THEN outcome(pv, error(pd.errors, "Duplicate attribute entry for", name), pd, <<>>)
       ELSE outcome([pv EXCEPT !.attributes =
                         dict_set(@, name, Attribute(name, annotation, pd.value))],
                    pd.errors, pd, <<>>)

\* Mutation of _read_attribute_type: a type already staged for the name is
\* kept and the new one is dropped.
read_attribute_type_keeps_first(pv, ctx, errs, ls, start_index) ==
    LET pd == parse_directive(ls, start_index, errs)
        descriptive    == strip(pd.value)
        attribute_type == consolidate_descriptive_type(descriptive)
        typed          == <<[descriptive_type |-> descriptive, consolidated |-> attribute_type]>>
        attribute_name == pd.directive_parts[2]
        staged    == IF dict_has(pv.attribute_types, attribute_name) THEN pv
                     ELSE [pv EXCEPT !.attribute_types =
                              dict_set(@, attribute_name, attribute_type)]
        attribute == dict_get(pv.attributes, attribute_name)
    IN IF pd.invalid
       THEN outcome(pv, pd.errors, pd, <<>>)
       ELSE IF Len(pd.directive_parts) # 2
       THEN outcome(pv, error(pd.errors, "Failed to get attribute name from", pd.line),
                    pd, typed)
       ELSE IF ~dict_has(pv.attributes, attribute_name)
       THEN outcome(staged, pd.errors, pd, typed)
       ELSE IF attribute.annotation = empty
       THEN outcome([staged EXCEPT !.attributes =
                         dict_set(@, attribute_name,
                                  [attribute EXCEPT !.annotation = attribute_type])],
                    pd.errors, pd, typed)
       ELSE outcome(staged,
                    error(pd.errors, "Duplicate attribute information for", attribute_name),
                    pd, typed)

\* _read_attribute_type
read_attribute_type(pv, ctx, errs, ls, start_index) ==
    LET pd == parse_directive(ls, start_index, errs)
        descriptive    == strip(pd.value)
        attribute_type == consolidate_descriptive_type(descriptive)
        typed          == <<[descriptive_type |-> descriptive, consolidated |-> attribute_type]>>
        attribute_name == pd.directive_parts[2]
        staged    == [pv EXCEPT !.attribute_types = dict_set(@, attribute_name, attribute_type)]
        attribute == dict_get(pv.attributes, attribute_name)
    IN IF pd.invalid
       THEN outcome(pv, pd.errors, pd, <<>>)
       ELSE IF Len(pd.directive_parts) # 2
       THEN outcome(pv, error(pd.errors, "Failed to get attribute name from", pd.line),
                    pd, typed)
       ELSE IF ~dict_has(pv.attributes, attribute_name)
       THEN outcome(staged, pd.errors, pd, typed)
       ELSE IF attribute.annotation = empty
       THEN outcome([staged EXCEPT !.attributes =
                         dict_set(@, attribute_name,
                                  [attribute EXCEPT !.annotation = attribute_type])],
                    pd.errors, pd, typed)
       ELSE outcome(staged,
                    error(pd.errors, "Duplicate attribute information for", attribute_name),
                    pd, typed)

\* Mutation of _read_exception: an exception type already in the list is
\* reported as a duplicate and not appended again.
read_exception_once(pv, ctx, errs, ls, start_index) ==
    LET pd == parse_directive(ls, start_index, errs)
        listed == {pv.exceptions[k].annotation : k \in 1..Len(pv.exceptions)}
    IN IF pd.invalid
       THEN outcome(pv, pd.errors, pd, <<>>)
       ELSE IF Len(pd.directive_parts) = 2 /\ pd.directive_parts[2] \in listed
       THEN outcome(pv, error(pd.errors, "Duplicate exception entry for",
                              pd.directive_parts[2]), pd, <<>>)
       ELSE IF Len(pd.directive_parts) = 2
       THEN outcome([pv EXCEPT !.exceptions =
                         Append(@, AnnotatedObject(pd.directive_parts[2], pd.value))],
                    pd.errors, pd, <<>>)
       ELSE outcome(pv, error(pd.errors, "Failed to parse exception directive from", pd.line),
                    pd, <<>>)

\* _read_exception
read_exception(pv, ctx, errs, ls, start_index) ==
    LET pd == parse_directive(ls, start_index, errs)
    IN IF pd.invalid
       THEN outcome(pv, pd.errors, pd, <<>>)
       ELSE IF Len(pd.directive_parts) = 2
       THEN outcome([pv EXCEPT !.exceptions =
                         Append(@, AnnotatedObject(pd.directive_parts[2], pd.value))],
                    pd.errors, pd, <<>>)
       ELSE outcome(pv, error(pd.errors, "Failed to parse exception directive from", pd.line),
                    pd, <<>>)

\* Mutation of _read_return: the staged `:rtype:` type is preferred to the
\* return annotation of the signature.
read_return_rtype_wins(pv, ctx, errs, ls, start_index) ==
    LET pd == parse_directive(ls, start_index, errs)
        annotation ==
            IF pv.return_type # None THEN pv.return_type
            ELSE IF ctx.signature # <<>> /\ ctx.signature[1].return_annotation # empty
            THEN ctx.signature[1].return_annotation
            ELSE ctx.annotation
    IN IF pd.invalid
       THEN outcome(pv, pd.errors, pd, <<>>)
       ELSE outcome([pv EXCEPT !.return_value = <<AnnotatedObject(annotation, pd.value)>>],
                    pd.errors, pd, <<>>)

\* _read_return
read_return(pv, ctx, errs, ls, start_index) ==
    LET pd == parse_directive(ls, start_index, errs)
        annotation ==
            IF ctx.signature # <<>> /\ ctx.signature[1].return_annotation # empty
            THEN ctx.signature[1].return_annotation
            ELSE IF pv.return_type # None THEN pv.return_type
            ELSE ctx.annotation
    IN IF pd.invalid
       THEN outcome(pv, pd.errors, pd, <<>>)
       ELSE outcome([pv EXCEPT !.return_value = <<AnnotatedObject(annotation, pd.value)>>],
                    pd.errors, pd, <<>>)

\* Mutation of _read_return_type: the annotation of the return object is
\* replaced whether it is empty or not.
read_return_type_overwrites(pv, ctx, errs, ls, start_index) ==
    LET pd == parse_directive(ls, start_index, errs)
        descriptive == strip(pd.value)
        return_type == consolidate_descriptive_type(descriptive)
        typed       == <<[descriptive_type |-> descriptive, consolidated |-> return_type]>>
        staged      == [pv EXCEPT !.return_type = return_type]
    IN IF pd.invalid
       THEN outcome(pv, pd.errors, pd, <<>>)
       ELSE IF pv.return_value = <<>>
       THEN outcome(staged, pd.errors, pd, typed)
       ELSE IF pv.return_value[1].annotation = empty
       THEN outcome([staged EXCEPT !.return_value =
                         <<[pv.return_value[1] EXCEPT !.annotation = return_type]>>],
                    pd.errors, pd, typed)
       ELSE outcome([staged EXCEPT !.return_value =
                         <<[pv.return_value[1] EXCEPT !.annotation = return_type]>>],
                    error(pd.errors, "Duplicate type information for return", <<>>),
                    pd, typed)

\* _read_return_type
read_return_type(pv, ctx, errs, ls, start_index) ==
    LET pd == parse_directive(ls, start_index, errs)
        descriptive == strip(pd.value)
        return_type == consolidate_descriptive_type(descriptive)
        typed       == <<[descriptive_type |-> descriptive, consolidated |-> return_type]>>
        staged      == [pv EXCEPT !.return_type = return_type]
    IN IF pd.invalid
       THEN outcome(pv, pd.errors, pd, <<>>)
       ELSE IF pv.return_value = <<>>
       THEN outcome(staged, pd.errors, pd, typed)
       ELSE IF pv.return_value[1].annotation = empty
       THEN outcome([staged EXCEPT !.return_value =
                         <<[pv.return_value[1] EXCEPT !.annotation = return_type]>>],
                    pd.errors, pd, typed)
       ELSE outcome(staged, error(pd.errors, "Duplicate type information for return", <<>>),
                    pd, typed)

\* _append_description
append_description(pv, line) ==
    IF pv.description # <<>> \/ line # <<"\n">>
    THEN [pv EXCEPT !.description = Append(@, line)]
    ELSE pv

\* The errors of the for loop of _dedent_lines over ls[k..]: one per line that
\* does not start with the indent.
RECURSIVE dedent_errors(_, _, _, _)
dedent_errors(ls, k, indent, errs) ==
    IF k > Len(ls) THEN errs
    ELSE dedent_errors(ls, k + 1, indent,
                       IF startswith(ls[k], indent)
                       THEN errs
                       ELSE error(errs, "Description line didn't have a matching indent", <<>>))

\* _dedent_lines.  `raised` is the IndexError of lines[0] on an empty list.
dedent_lines(ls, errs) ==
    IF ls # <<>>
    THEN [raised |-> FALSE, lines |-> ls, errors |-> errs]
    ELSE IF Len(ls) = 0
    THEN [raised |-> TRUE, lines |-> <<>>, errors |-> errs]
    ELSE LET first_line     == ls[1]
             initial_indent == Len(first_line) - Len(lstrip(first_line))
             initial_indent_spaces == [k \in 1..initial_indent |-> " "]
         IN IF initial_indent = 0
            THEN [raised |-> FALSE, lines |-> ls, errors |-> errs]
            ELSE [ raised |-> FALSE,
                   lines  |-> [k \in 1..Len(ls) |->
                                 IF startswith(ls[k], initial_indent_spaces)
                                 THEN SubSeq(ls[k], initial_indent + 1, Len(ls[k]))
                                 ELSE ls[k]],
                   errors |-> dedent_errors(ls, 1, initial_indent_spaces, errs) ]

Section(type, value) == [type |-> type, value |-> value]

\* Mutation of _parsed_values_to_sections: the exceptions are appended before
\* the return value.
parsed_values_to_sections_exceptions_early(pv, errs) ==
    LET dedented == dedent_lines(pv.description, errs)
        markdown_text == join(<<"\n">>, dedented.lines)
    IN [ raised   |-> dedented.raised,
         errors   |-> dedented.errors,
         sections |->
             <<Section("MARKDOWN", markdown_text)>>
             \o (IF pv.parameters # <<>>
                 THEN <<Section("PARAMETERS", dict_values(pv.parameters))>> ELSE <<>>)
             \o (IF pv.attributes # <<>>
                 THEN <<Section("ATTRIBUTES", dict_values(pv.attributes))>> ELSE <<>>)
             \o (IF pv.exceptions # <<>>
                 THEN <<Section("EXCEPTIONS", pv.exceptions)>> ELSE <<>>)
             \o (IF pv.return_value # <<>>
                 THEN <<Section("RETURN", pv.return_value[1])>> ELSE <<>>) ]

\* Mutation of _parsed_values_to_sections: the exceptions section is appended
\* without the test that there are exceptions.
parsed_values_to_sections_unguarded(pv, errs) ==
    LET dedented == dedent_lines(pv.description, errs)
        markdown_text == join(<<"\n">>, dedented.lines)
    IN [ raised   |-> dedented.raised,
         errors   |-> dedented.errors,
         sections |->
             <<Section("MARKDOWN", markdown_text)>>
             \o (IF pv.parameters # <<>>
                 THEN <<Section("PARAMETERS", dict_values(pv.parameters))>> ELSE <<>>)
             \o (IF pv.attributes # <<>>
                 THEN <<Section("ATTRIBUTES", dict_values(pv.attributes))>> ELSE <<>>)
             \o (IF pv.return_value # <<>>
                 THEN <<Section("RETURN", pv.return_value[1])>> ELSE <<>>)
             \o <<Section("EXCEPTIONS", pv.exceptions)>> ]

\* _parsed_values_to_sections
parsed_values_to_sections(pv, errs) ==
    LET dedented == dedent_lines(pv.description, errs)
        markdown_text == join(<<"\n">>, dedented.lines)
    IN [ raised   |-> dedented.raised,
         errors   |-> dedented.errors,
         sections |->
             <<Section("MARKDOWN", markdown_text)>>
             \o (IF pv.parameters # <<>>
                 THEN <<Section("PARAMETERS", dict_values(pv.parameters))>> ELSE <<>>)
             \o (IF pv.attributes # <<>>
                 THEN <<Section("ATTRIBUTES", dict_values(pv.attributes))>> ELSE <<>>)
             \o (IF pv.return_value # <<>>
                 THEN <<Section("RETURN", pv.return_value[1])>> ELSE <<>>)
             \o (IF pv.exceptions # <<>>
                 THEN <<Section("EXCEPTIONS", pv.exceptions)>> ELSE <<>>) ]

---------------------------------------------------------------------------
(* The inputs of a parse: docstrings of at most MaxLines lines drawn from  *)
(* a catalogue of lines, and the caller's contexts.                        *)

\* ""
L_blank == <<>>
\* "  a"
L_indented == <<" ", " ", "a">>
\* "b"
L_plain == <<"b">>
\* ":param x: d"
L_param == <<":", "p", "a", "r", "a", "m", " ", "x", ":", " ", "d">>
\* ":param int x: e"
L_param_inline ==
    <<":", "p", "a", "r", "a", "m", " ", "i", "n", "t", " ", "x", ":", " ", "e">>
\* ":type x: str or None"
L_type ==
    <<":", "t", "y", "p", "e", " ", "x", ":", " ",
      "s", "t", "r", " ", "o", "r", " ", "N", "o", "n", "e">>
\* ":var v: d"
L_var == <<":", "v", "a", "r", " ", "v", ":", " ", "d">>
\* ":vartype v: Vector"
L_vartype ==
    <<":", "v", "a", "r", "t", "y", "p", "e", " ", "v", ":", " ",
      "V", "e", "c", "t", "o", "r">>
\* ":raises E: d"
L_raises == <<":", "r", "a", "i", "s", "e", "s", " ", "E", ":", " ", "d">>
\* ":returns: d"
L_returns == <<":", "r", "e", "t", "u", "r", "n", "s", ":", " ", "d">>
\* ":rtype: int or str"
L_rtype ==
    <<":", "r", "t", "y", "p", "e", ":", " ",
      "i", "n", "t", " ", "o", "r", " ", "s", "t", "r">>
\* ":param x", a directive with one colon
L_one_colon == <<":", "p", "a", "r", "a", "m", " ", "x">>
\* ":type x y: int", a type directive with three tokens
L_type_tokens ==
    <<":", "t", "y", "p", "e", " ", "x", " ", "y", ":", " ", "i", "n", "t">>

\* " :param x: d", a directive after one space
L_param_indented == <<" ", ":", "p", "a", "r", "a", "m", " ", "x", ":", " ", "d">>

Catalogue ==
    << L_blank, L_indented, L_plain, L_param, L_param_inline, L_type, L_var,
       L_vartype, L_raises, L_returns, L_rtype, L_one_colon, L_type_tokens,
       L_param_indented >>

Docstrings ==
    { join(<<"\n">>, [k \in DOMAIN choice |-> Catalogue[choice[k]]]) :
        choice \in UNION { [1..n -> 1..Len(Catalogue)] : n \in 1..MaxLines } }

\* ":param int x y: d", a parameter directive with four tokens
L_param_tokens ==
    <<":", "p", "a", "r", "a", "m", " ", "i", "n", "t", " ", "x", " ", "y", ":", " ", "d">>
\* ":var v w: d", an attribute directive with three tokens
L_var_tokens == <<":", "v", "a", "r", " ", "v", " ", "w", ":", " ", "d">>
\* ":vartype v w: T", an attribute type directive with three tokens
L_vartype_tokens ==
    <<":", "v", "a", "r", "t", "y", "p", "e", " ", "v", " ", "w", ":", " ", "T">>
\* ":raises E F: d", an exception directive with three tokens
L_raises_tokens ==
    <<":", "r", "a", "i", "s", "e", "s", " ", "E", " ", "F", ":", " ", "d">>
\* ":raises E", an exception directive with one colon
L_raises_one_colon == <<":", "r", "a", "i", "s", "e", "s", " ", "E">>

\* The lines of the docstrings that hold faulty directives among sound ones.
FaultyCatalogue ==
    << L_plain, L_param, L_type, L_var, L_raises, L_returns, L_rtype,
       L_one_colon, L_type_tokens, L_param_tokens, L_var_tokens,
       L_vartype_tokens, L_raises_tokens, L_raises_one_colon >>

FaultyDocstrings ==
    { join(<<"\n">>, [k \in DOMAIN choice |-> FaultyCatalogue[choice[k]]]) :
        choice \in UNION { [1..n -> 1..Len(FaultyCatalogue)] : n \in 1..MaxLines } }

\* The reader the scan loop calls for each line a docstring can hold: dispatch,
\* tabulated over the catalogues.
field_type_reader ==
    [line \in {Catalogue[k] : k \in 1..Len(Catalogue)}
              \cup {FaultyCatalogue[k] : k \in 1..Len(FaultyCatalogue)} |->
        dispatch(line)]

X == <<"x">>
V == <<"v">>

SignatureParameter(annotation, default, kind) ==
    [annotation |-> annotation, default |-> default, kind |-> kind]

\* No "signature", "type" or "attributes" key: the context of __init__.
NoContext == [signature |-> <<>>, type |-> None, attributes |-> <<>>]

Contexts ==
    { NoContext,
      \* def f(x: int), a declared type and a known annotation of attribute v
      [ signature  |-> << [ parameters |->
                              << [key |-> X, value |->
                                    SignatureParameter(ClassInt, empty, PositionalOrKeyword)] >>,
                            return_annotation |-> empty ] >>,
        type       |-> ClassBool,
        attributes |-> << [key |-> V, value |-> [annotation |-> ClassFloat]] >> ],
      \* def f(x=0) -> str
      [ signature  |-> << [ parameters |->
                              << [key |-> X, value |->
                                    SignatureParameter(empty, DefaultZero, PositionalOrKeyword)] >>,
                            return_annotation |-> ClassStr ] >>,
        type       |-> None,
        attributes |-> <<>> ],
      \* def f(): the signature has no parameter x
      [ signature  |-> << [parameters |-> <<>>, return_annotation |-> empty] >>,
        type       |-> None,
        attributes |-> <<>> ] }

---------------------------------------------------------------------------
(* The scan loop of parse_sections as a function: the accumulator it       *)
(* leaves when it runs over the lines ls from line i on.                   *)

\* field_type.reader(lines, curr_line_index) for the reader named `reader`.
call_reader(reader, pv, ctx, errs, ls, start_index) ==
    CASE reader = "_read_parameter_type" -> read_parameter_type(pv, ctx, errs, ls, start_index)
      [] reader = "_read_parameter"      -> read_parameter(pv, ctx, errs, ls, start_index)
      [] reader = "_read_attribute_type" -> read_attribute_type(pv, ctx, errs, ls, start_index)
      [] reader = "_read_attribute"      -> read_attribute(pv, ctx, errs, ls, start_index)
      [] reader = "_read_exception"      -> read_exception(pv, ctx, errs, ls, start_index)
      [] reader = "_read_return"         -> read_return(pv, ctx, errs, ls, start_index)
      [] reader = "_read_return_type"    -> read_return_type(pv, ctx, errs, ls, start_index)

RECURSIVE scan_loop(_, _, _, _)
scan_loop(pv, ctx, ls, i) ==
    IF i >= Len(ls) THEN pv
    ELSE LET reader == field_type_reader[ls[i + 1]]
         IN IF reader = "_append_description"
            THEN scan_loop(append_description(pv, ls[i + 1]), ctx, ls, i + 1)
            ELSE LET o == call_reader(reader, pv, ctx, <<>>, ls, i)
                 IN scan_loop(o.parsed_values, ctx, ls, o.directive.next_index + 1)

---------------------------------------------------------------------------
(* The state machine: a parser is constructed, then parse_sections runs    *)
(* one iteration of its scan loop per step and returns or raises.          *)

NoTypeCall == [called |-> FALSE, descriptive_type |-> <<>>, consolidated |-> <<>>]

\* RestructuredText.__init__
Init ==
    /\ pc = "idle"
    /\ typed_context = ParseContext(NoContext)
    /\ parsed_values = ParsedValues
    /\ lines = <<>>
    /\ curr_line_index = 0
    /\ errors = <<>>
    /\ result = <<>>
    /\ calls = <<>>
    /\ last_type = NoTypeCall
    /\ parses = <<>>

\* parse_sections(docstring) with self.context = context, left with its
\* accumulator where the previous call left it.
parse_sections_keeps_parsed_values(docstring, context) ==
    /\ typed_context' = ParseContext(context)
    /\ parsed_values' = parsed_values
    /\ lines' = split(docstring, <<"\n">>, -1)
    /\ curr_line_index' = 0
    /\ errors' = <<>>
    /\ result' = <<>>
    /\ calls' = <<>>
    /\ last_type' = NoTypeCall
    /\ parses' = Append(parses, [ docstring |-> docstring, context |-> context,
                                  outcome   |-> "scan",   sections |-> <<>> ])
    /\ pc' = "scan"

\* parse_sections up to the scan loop, called by Parser.parse(docstring, context),
\* which sets self.context and starts self.errors empty.
parse_sections(docstring, context) ==
    /\ typed_context' = ParseContext(context)
    /\ parsed_values' = ParsedValues
    /\ lines' = split(docstring, <<"\n">>, -1)
    /\ curr_line_index' = 0
    /\ errors' = <<>>
    /\ result' = <<>>
    /\ calls' = <<>>
    /\ last_type' = NoTypeCall
    /\ parses' = Append(parses, [ docstring |-> docstring, context |-> context,
                                  outcome   |-> "scan",   sections |-> <<>> ])
    /\ pc' = "scan"

\* The first parse of a parser.
ParseSections ==
    /\ pc = "idle"
    /\ \E docstring \in Docstrings, context \in Contexts :
          parse_sections(docstring, context)

\* One iteration of the scan loop whose line matches the field type of `reader`:
\* the reader runs from curr_line_index and the cursor moves one past its return.
Dispatched(reader, out) ==
    /\ pc = "scan"
    /\ curr_line_index < Len(lines)
    /\ field_type_reader[lines[curr_line_index + 1]] = reader
    /\ LET o == out
           d == o.directive
       IN /\ parsed_values' = o.parsed_values
          /\ errors' = o.errors
          /\ curr_line_index' = d.next_index + 1
          /\ calls' = Append(calls, [ reader          |-> reader,
                                      start_index     |-> curr_line_index,
                                      next_index      |-> d.next_index,
                                      invalid         |-> d.invalid,
                                      line            |-> d.line,
                                      directive_parts |-> d.directive_parts,
                                      value           |-> d.value ])
          /\ last_type' = IF o.typed = <<>>
                          THEN last_type
                          ELSE [ called           |-> TRUE,
                                 descriptive_type |-> o.typed[1].descriptive_type,
                                 consolidated     |-> o.typed[1].consolidated ]
    /\ UNCHANGED <<pc, typed_context, lines, result, parses>>

ReadParameterType ==
    Dispatched("_read_parameter_type",
               read_parameter_type(parsed_values, typed_context, errors, lines, curr_line_index))

ReadParameter ==
    Dispatched("_read_parameter",
               read_parameter(parsed_values, typed_context, errors, lines, curr_line_index))

ReadAttributeType ==
    Dispatched("_read_attribute_type",
               read_attribute_type(parsed_values, typed_context, errors, lines, curr_line_index))

ReadAttribute ==
    Dispatched("_read_attribute",
               read_attribute(parsed_values, typed_context, errors, lines, curr_line_index))

ReadException ==
    Dispatched("_read_exception",
               read_exception(parsed_values, typed_context, errors, lines, curr_line_index))

ReadReturn ==
    Dispatched("_read_return",
               read_return(parsed_values, typed_context, errors, lines, curr_line_index))

ReadReturnType ==
    Dispatched("_read_return_type",
               read_return_type(parsed_values, typed_context, errors, lines, curr_line_index))

\* One iteration of the scan loop whose line matches no field type.
AppendDescription ==
    /\ pc = "scan"
    /\ curr_line_index < Len(lines)
    /\ field_type_reader[lines[curr_line_index + 1]] = "_append_description"
    /\ parsed_values' = append_description(parsed_values, lines[curr_line_index + 1])
    /\ curr_line_index' = curr_line_index + 1
    /\ calls' = Append(calls, [ reader          |-> "_append_description",
                                start_index     |-> curr_line_index,
                                next_index      |-> curr_line_index,
                                invalid         |-> FALSE,
                                line            |-> lines[curr_line_index + 1],
                                directive_parts |-> <<>>,
                                value           |-> <<>> ])
    /\ UNCHANGED <<pc, typed_context, lines, errors, result, last_type, parses>>

\* The scan loop ends: `return self._parsed_values_to_sections()`, which returns
\* the sections or raises.
Return ==
    /\ pc = "scan"
    /\ curr_line_index >= Len(lines)
    /\ LET assembled == parsed_values_to_sections(parsed_values, errors)
       IN /\ pc' = IF assembled.raised THEN "raised" ELSE "returned"
          /\ result' = IF assembled.raised THEN <<>> ELSE assembled.sections
          /\ errors' = assembled.errors
          /\ parses' = [parses EXCEPT ![Len(parses)] =
                          [ @ EXCEPT !.outcome  = IF assembled.raised THEN "raised"
                                                  ELSE "returned",
                                     !.sections = IF assembled.raised THEN <<>>
                                                  ELSE assembled.sections ]]
    /\ UNCHANGED <<typed_context, parsed_values, lines, curr_line_index, calls, last_type>>

Next ==
    \/ ParseSections
    \/ ReadParameterType
    \/ ReadParameter
    \/ ReadAttributeType
    \/ ReadAttribute
    \/ ReadException
    \/ ReadReturn
    \/ ReadReturnType
    \/ AppendDescription
    \/ Return

Spec == Init /\ [][Next]_vars

---------------------------------------------------------------------------
(* A parser that is used again: once a parse has returned or raised, the   *)
(* caller parses the same docstring with the same context once more.       *)

ReuseDocstrings ==
    { join(<<"\n">>, [k \in DOMAIN choice |-> Catalogue[choice[k]]]) :
        choice \in UNION { [1..n -> 1..Len(Catalogue)] : n \in 1..MaxReuseLines } }

\* The first parse of a parser that will be used again.
ParseFirst ==
    /\ pc = "idle"
    /\ \E docstring \in ReuseDocstrings, context \in Contexts :
          parse_sections(docstring, context)

\* A further parse of the same docstring and context on the same parser.
ParseAgain ==
    /\ pc \in {"returned", "raised"}
    /\ Len(parses) < MaxParses
    /\ parse_sections(parses[Len(parses)].docstring, parses[Len(parses)].context)

NextReuse ==
    \/ ParseFirst
    \/ ParseAgain
    \/ ReadParameterType
    \/ ReadParameter
    \/ ReadAttributeType
    \/ ReadAttribute
    \/ ReadException
    \/ ReadReturn
    \/ ReadReturnType
    \/ AppendDescription
    \/ Return

SpecReuse == Init /\ [][NextReuse]_vars

---------------------------------------------------------------------------
(* A parser given docstrings that hold faulty directives.                  *)

FaultyContexts ==
    { context \in Contexts : context.signature = <<>> \/ context.type # None }

ParseFaulty ==
    /\ pc = "idle"
    /\ \E docstring \in FaultyDocstrings, context \in FaultyContexts :
          parse_sections(docstring, context)

NextFaulty ==
    \/ ParseFaulty
    \/ ReadParameterType
    \/ ReadParameter
    \/ ReadAttributeType
    \/ ReadAttribute
    \/ ReadException
    \/ ReadReturn
    \/ ReadReturnType
    \/ AppendDescription
    \/ Return

SpecFaulty == Init /\ [][NextFaulty]_vars

---------------------------------------------------------------------------
(* _consolidate_continuation_lines as a function of its arguments: it is   *)
(* called once on the lines of a docstring, at a start index that may be   *)
(* past the last line; `result` holds the tuple it returned.               *)

InitJoiner ==
    /\ pc = "idle"
    /\ typed_context = ParseContext(NoContext)
    /\ parsed_values = ParsedValues
    /\ \E docstring \in Docstrings :
          /\ lines = split(docstring, <<"\n">>, -1)
          /\ curr_line_index \in 0..(Len(lines) + 1)
    /\ errors = <<>>
    /\ result = <<>>
    /\ calls = <<>>
    /\ last_type = NoTypeCall
    /\ parses = <<>>

ConsolidateContinuationLines ==
    /\ pc = "idle"
    /\ result' = consolidate_continuation_lines(lines, curr_line_index)
    /\ pc' = "joined"
    /\ UNCHANGED <<typed_context, parsed_values, lines, curr_line_index, errors,
                   calls, last_type, parses>>

NextJoiner ==
    \/ ConsolidateContinuationLines

SpecJoiner == InitJoiner /\ [][NextJoiner]_vars

---------------------------------------------------------------------------
(* Vocabulary of the properties: what the history of reader calls says     *)
(* about the docstring, and what the parse produced.                       *)

\* The scan loop has ended: the whole docstring is parsed.
ScanDone == pc \in {"returned", "raised"}

\* Call c is a `:param` directive that parsed, with 2 or 3 tokens.
WellFormedParam(c) ==
    /\ c.reader = "_read_parameter"
    /\ ~c.invalid
    /\ Len(c.directive_parts) \in {2, 3}

\* Call c is a `:type` directive that parsed, with 2 tokens.
WellFormedType(c) ==
    /\ c.reader = "_read_parameter_type"
    /\ ~c.invalid
    /\ Len(c.directive_parts) = 2

ParamName(c) == c.directive_parts[Len(c.directive_parts)]

HasInlineType(c) == Len(c.directive_parts) = 3

\* The well-formed `:param` directives for x, and its `:type x:` directives.
ParamCalls(x) ==
    {k \in 1..Len(calls) : WellFormedParam(calls[k]) /\ ParamName(calls[k]) = x}

TypeCalls(x) ==
    {k \in 1..Len(calls) : WellFormedType(calls[k]) /\ calls[k].directive_parts[2] = x}

\* The first `:param` directive for x: the one that registers it.
Registering(x) == CHOOSE k \in ParamCalls(x) : \A j \in ParamCalls(x) : k <= j

\* The types the `:type x:` directives give, as the type reader stages them.
SeparateTypes(x) ==
    {consolidate_descriptive_type(strip(calls[k].value)) : k \in TypeCalls(x)}

\* Every `:type x:` directive comes before / after the registering `:param`.
TypeBeforeParam(x) == TypeCalls(x) # {} /\ \A k \in TypeCalls(x) : k < Registering(x)
TypeAfterParam(x) == TypeCalls(x) # {} /\ \A k \in TypeCalls(x) : k > Registering(x)

\* The annotation the signature declares for x, `empty` when there is no
\* signature, no such parameter or no annotation on it.
SignatureAnnotation(x) ==
    IF typed_context.signature = <<>> THEN empty
    ELSE LET params == typed_context.signature[1].parameters
             key    == lstrip_chars(x, {"*"})
         IN IF \E i \in 1..Len(params) : params[i].key = key
            THEN params[CHOOSE i \in 1..Len(params) : params[i].key = key].value.annotation
            ELSE empty

\* The documented parameters: those of the PARAMETERS section when the parse
\* returned, those of the accumulator when it did not.
SectionTypes == [i \in 1..Len(result) |-> result[i].type]

SectionValue(type) == result[CHOOSE i \in 1..Len(result) : result[i].type = type].value

HasSection(type) == \E i \in 1..Len(result) : result[i].type = type

Documented ==
    IF pc = "returned"
    THEN IF HasSection("PARAMETERS") THEN SectionValue("PARAMETERS") ELSE <<>>
    ELSE dict_values(parsed_values.parameters)

\* How many times an error is recorded.
Count(message, about) ==
    Cardinality({k \in 1..Len(errors) : errors[k] = [message |-> message, about |-> about]})

ConflictErrors(x) == Count("Duplicate parameter information for", x)

---------------------------------------------------------------------------
(* Properties.                                                             *)

\* C1: for every docstring and every context parse_sections completes and
\* returns a list of sections; no input makes it abort with a fault.
C1_ParseAlwaysReturns == pc # "raised"

\* C2: the line cursor strictly increases on every iteration of the scan loop:
\* a reader called at index i returns r with i <= r < number of lines and the
\* driver moves to r + 1, so there are at most as many iterations as lines.
C2_CursorAdvances ==
    /\ Len(calls) <= Len(lines)
    /\ curr_line_index = IF calls = <<>> THEN 0 ELSE calls[Len(calls)].next_index + 1
    /\ \A k \in 1..Len(calls) :
          /\ calls[k].start_index = IF k = 1 THEN 0 ELSE calls[k - 1].next_index + 1
          /\ calls[k].start_index <= calls[k].next_index
          /\ calls[k].next_index < Len(lines)

\* C2 witness: a parse has returned in which, after an earlier iteration, a
\* reader consumed a continuation line.
C2_Witness ==
    /\ pc = "returned"
    /\ \E k \in 2..Len(calls) : calls[k].next_index > calls[k].start_index

\* C3: after a whole docstring is parsed, the annotation of a documented
\* parameter x is the signature's annotation for x when there is one, otherwise
\* the inline type of `:param T x:`, otherwise the value of a separate
\* `:type x:` directive (before or after `:param x:`), otherwise `empty`.
C3_AnnotationPrecedence ==
    ScanDone =>
        \A i \in 1..Len(Documented) :
            LET x   == Documented[i].name
                got == Documented[i].annotation
                reg == calls[Registering(x)]
            IN IF SignatureAnnotation(x) # empty THEN got = SignatureAnnotation(x)
               ELSE IF HasInlineType(reg) THEN got = reg.directive_parts[2]
               ELSE IF TypeCalls(x) # {} THEN got \in SeparateTypes(x)
               ELSE got = empty

\* C3 witness: a returned parameter with no signature annotation and no inline
\* type took its annotation from a `:type` directive that came after `:param`.
C3_Witness ==
    /\ pc = "returned"
    /\ \E i \in 1..Len(Documented) :
          LET x == Documented[i].name
          IN /\ SignatureAnnotation(x) = empty
             /\ ~HasInlineType(calls[Registering(x)])
             /\ TypeAfterParam(x)
             /\ Documented[i].annotation # empty

\* The case of C4: the signature annotates x, one `:param` directive documents
\* x, and the docstring gives exactly one further type source for x.
OneFurtherSource(x) ==
    /\ SignatureAnnotation(x) # empty
    /\ Cardinality(ParamCalls(x)) = 1
    /\ Cardinality(TypeCalls(x)) + (IF HasInlineType(calls[Registering(x)]) THEN 1 ELSE 0) = 1

\* C4 as stated: with a signature annotation for x and exactly one further type
\* source (inline, or one `:type x:` before or after `:param x:`), the resolved
\* annotation is the signature's and no conflict or duplicate-information
\* error is recorded.
C4_NoErrorWithOneSource ==
    ScanDone =>
        \A i \in 1..Len(Documented) :
            LET x == Documented[i].name
            IN OneFurtherSource(x) =>
                  /\ Documented[i].annotation = SignatureAnnotation(x)
                  /\ ConflictErrors(x) = 0

\* C4 amended: in that case the resolved annotation is the signature's; no
\* duplicate-information error is recorded when the one source is the inline
\* type or a `:type x:` before `:param x:`, and exactly one is recorded when
\* it is a `:type x:` after `:param x:`.
C4_OneSourceErrorOnlyAfter ==
    ScanDone =>
        \A i \in 1..Len(Documented) :
            LET x == Documented[i].name
            IN OneFurtherSource(x) =>
                  /\ Documented[i].annotation = SignatureAnnotation(x)
                  /\ ConflictErrors(x) = IF TypeAfterParam(x) THEN 1 ELSE 0

\* C4 witness: a returned parameter annotated by the signature, with one
\* `:type` directive before its `:param` and no error for it.
C4_Witness ==
    /\ pc = "returned"
    /\ \E i \in 1..Len(Documented) :
          LET x == Documented[i].name
          IN /\ OneFurtherSource(x)
             /\ TypeBeforeParam(x)
             /\ ConflictErrors(x) = 0
             /\ Documented[i].annotation = ClassInt

\* C5: when the docstring gives x both an inline type (on the `:param T x:`
\* that registers x) and a separate `:type x:` directive, a conflict error is
\* recorded, in either order and with or without a signature, and the
\* parameter is still created with the annotation chosen by precedence.
C5_ConflictRecorded ==
    ScanDone =>
        \A x \in {c.directive_parts[Len(c.directive_parts)] :
                     c \in {calls[k] : k \in {j \in 1..Len(calls) : WellFormedParam(calls[j])}}} :
            (HasInlineType(calls[Registering(x)]) /\ TypeCalls(x) # {}) =>
                /\ ConflictErrors(x) >= 1
                /\ \E i \in 1..Len(Documented) :
                      /\ Documented[i].name = x
                      /\ Documented[i].annotation =
                            IF SignatureAnnotation(x) # empty
                            THEN SignatureAnnotation(x)
                            ELSE calls[Registering(x)].directive_parts[2]

\* C5 witness: a parse with a signature has returned where `:type x:` came
\* before `:param T x:` and the conflict is recorded.
C5_Witness ==
    /\ pc = "returned"
    /\ typed_context.signature # <<>>
    /\ \E i \in 1..Len(Documented) :
          LET x == Documented[i].name
          IN /\ HasInlineType(calls[Registering(x)])
             /\ TypeBeforeParam(x)
             /\ ConflictErrors(x) >= 1

\* C6: when a well-formed `:param x:` directive is processed and x is already
\* in the parameter map, exactly one error is appended and the parameter map
\* is left unchanged.
C6_DuplicateParameterDropped ==
    [][ ( /\ Len(calls') = Len(calls) + 1
          /\ WellFormedParam(calls'[Len(calls')])
          /\ dict_has(parsed_values.parameters, ParamName(calls'[Len(calls')])) )
        => ( /\ Len(errors') = Len(errors) + 1
             /\ SubSeq(errors', 1, Len(errors)) = errors
             /\ parsed_values'.parameters = parsed_values.parameters ) ]_vars

\* C6 witness: a second `:param` directive for x, with another description,
\* has been processed, and the returned parameter has the first description.
C6_Witness ==
    /\ pc = "returned"
    /\ \E i \in 1..Len(Documented) :
          LET x == Documented[i].name
          IN \E k \in ParamCalls(x) :
                /\ k # Registering(x)
                /\ calls[k].value # calls[Registering(x)].value
                /\ Documented[i].description = calls[Registering(x)].value
                /\ Count("Duplicate parameter entry for", x) = 1

\* The place of a section type in the fixed output order.
Rank(type) ==
    CASE type = "MARKDOWN"   -> 1
      [] type = "PARAMETERS" -> 2
      [] type = "ATTRIBUTES" -> 3
      [] type = "RETURN"     -> 4
      [] type = "EXCEPTIONS" -> 5

\* C7: the returned section list has each section type at most once, in the
\* relative order MARKDOWN, PARAMETERS, ATTRIBUTES, RETURN, EXCEPTIONS,
\* whatever the order of the directives.
C7_SectionOrder ==
    pc = "returned" =>
        \A i, j \in 1..Len(result) :
            i < j => Rank(result[i].type) < Rank(result[j].type)

\* C7 witness: a `:raises` directive came before a `:param` directive, and
\* the parse returned MARKDOWN, PARAMETERS, EXCEPTIONS.
C7_Witness ==
    /\ pc = "returned"
    /\ SectionTypes = <<"MARKDOWN", "PARAMETERS", "EXCEPTIONS">>
    /\ \E j, k \in 1..Len(calls) :
          /\ j < k
          /\ calls[j].reader = "_read_exception"
          /\ calls[k].reader = "_read_parameter"

\* The description text of the returned MARKDOWN section.
MarkdownText == SectionValue("MARKDOWN")

ReferenceType(descriptive_type) ==
    LET parts == split(descriptive_type, <<" ", "o", "r", " ">>, -1)
        types == [k \in 1..Len(parts) |-> strip(parts[k])]
    IN IF Len(parts) = 1 THEN descriptive_type
       ELSE IF Len(parts) = 2 /\ <<"N", "o", "n", "e">> \in {types[1], types[2]}
       THEN <<"O", "p", "t", "i", "o", "n", "a", "l", "[">>
            \o (IF types[1] = <<"N", "o", "n", "e">> THEN types[2] ELSE types[1])
            \o <<"]">>
       ELSE <<"U", "n", "i", "o", "n", "[">> \o join(<<",">>, types) \o <<"]">>

\* C9: the type consolidator agrees with the reference rule for every input:
\* one " or "-segment gives the input unchanged, two of which one trims to
\* "None" give Optional[<other>], every other case gives Union[...].
C9_ConsolidatorMatchesReference ==
    last_type.called =>
        last_type.consolidated = ReferenceType(last_type.descriptive_type)

\* The dedent of C10: n is the indent of the first description line; a line
\* that begins with n spaces loses them, any other line is kept.
ReferenceIndent(ls) == IF ls = <<>> THEN 0 ELSE Len(ls[1]) - Len(lstrip(ls[1]))

ReferenceDedent(ls) ==
    LET n == ReferenceIndent(ls)
    IN [k \in 1..Len(ls) |->
          IF startswith(ls[k], [j \in 1..n |-> " "])
          THEN SubSeq(ls[k], n + 1, Len(ls[k]))
          ELSE ls[k]]

ReferenceMismatches(ls) ==
    LET n == ReferenceIndent(ls)
    IN Cardinality({k \in 1..Len(ls) : ~startswith(ls[k], [j \in 1..n |-> " "])})

\* C10: when the first description line is indented by n > 0 spaces, the
\* MARKDOWN text has those n characters removed from every description line
\* that begins with n spaces, every other line is kept and records one error;
\* when n = 0 the lines are unchanged and no error is recorded.
C10_DescriptionDedented ==
    pc = "returned" =>
        /\ MarkdownText = join(<<"\n">>, ReferenceDedent(parsed_values.description))
        /\ Count("Description line didn't have a matching indent", <<>>)
              = ReferenceMismatches(parsed_values.description)

---------------------------------------------------------------------------
(* A parser used for several parses (SpecReuse).                           *)

\* A parse_sections call starts in this step.
ParseStarts == Len(parses') = Len(parses) + 1

\* The parse_sections calls i and j have ended and were given the same input.
SameInput(i, j) ==
    /\ parses[i].outcome # "scan"
    /\ parses[j].outcome # "scan"
    /\ parses[i].docstring = parses[j].docstring
    /\ parses[i].context = parses[j].context

\* C11: every parse_sections call starts from an empty accumulator (no
\* description, parameters, attributes, staged types, exceptions, return value
\* or return type), and two parses of the same docstring and context on one
\* parser end alike: both raise, or both return equal section lists.
C11_ReuseIsIdempotent ==
    [][ /\ ParseStarts => parsed_values' = ParsedValues
        /\ \A i, j \in 1..Len(parses') :
              (SameInput(i, j))' =>
                 /\ parses'[i].outcome = parses'[j].outcome
                 /\ parses'[i].sections = parses'[j].sections ]_vars

\* A second parse on a parser whose first parse registered something has
\* returned sections.
C11_Witness ==
    /\ Len(parses) = 2
    /\ parses[2].outcome = "returned"
    /\ Len(parses[2].sections) >= 2
    /\ parsed_values.description # <<>>

---------------------------------------------------------------------------
(* Dispatch of the lines to the readers.                                   *)

\* The line at which the loop iteration c started.
OpeningLine(c) == lines[c.start_index + 1]

\* C12: a line is matched after stripping its surrounding whitespace: the
\* iteration that starts at a line runs the reader of the stripped line, so a
\* directive line with leading whitespace goes to the reader of the same line
\* without it and is not appended to the description.
C12_MatchedAfterStripping ==
    \A k \in 1..Len(calls) :
        calls[k].reader = dispatch(strip(OpeningLine(calls[k])))

---------------------------------------------------------------------------
(* The continuation-line joiner (SpecJoiner).                              *)

BeginsWithColon(line) == line # <<>> /\ Head(line) = ":"

\* 0-based line i of ls.
Line(ls, i) == ls[i + 1]

\* The largest j >= s such that none of the lines s+1..j begins with ":".
LastContinuation(ls, s) ==
    CHOOSE j \in s..(Len(ls) - 1) :
        /\ \A i \in (s + 1)..j : ~BeginsWithColon(Line(ls, i))
        /\ \A h \in (j + 1)..(Len(ls) - 1) :
              \E i \in (s + 1)..h : BeginsWithColon(Line(ls, i))

\* The left-stripped lines s..j, joined by single spaces.
JoinedBySpaces(ls, s, j) ==
    join(<<" ">>, [k \in 1..(j - s + 1) |-> lstrip(Line(ls, s + k - 1))])

\* C13: called at an in-bounds start index s, the joiner returns the largest
\* j >= s such that none of the lines s+1..j begins with ":" and the
\* left-stripped lines s..j joined by single spaces, so a line followed by no
\* continuation line is consumed alone; called at an out-of-bounds index it
\* returns the empty line and the index unchanged.
C13_JoinerStopsAtDirective ==
    pc = "joined" =>
        LET s == curr_line_index
        IN IF s >= Len(lines)
           THEN result = [line |-> <<>>, next_index |-> s]
           ELSE /\ result.next_index = LastContinuation(lines, s)
                /\ result.line = JoinedBySpaces(lines, s, result.next_index)
                /\ (s + 1 = Len(lines) \/ BeginsWithColon(Line(lines, s + 1)))
                      => result.next_index = s

\* The joiner has joined a directive line with two continuation lines, one of
\* them a directive after a space, and stopped before a directive.
C13_Witness ==
    /\ pc = "joined"
    /\ curr_line_index = 0
    /\ Len(lines) = 3
    /\ result.next_index = 1
    /\ BeginsWithColon(lines[1])
    /\ lines[2] = L_param_indented
    /\ BeginsWithColon(lines[3])

\* The readers in registry order: type, param, vartype, var, exception,
\* return, rtype.
RegistryOrder ==
    << "_read_parameter_type", "_read_parameter", "_read_attribute_type",
       "_read_attribute", "_read_exception", "_read_return", "_read_return_type" >>

\* The positions in the registry of the field types whose names match the line.
Matching(line) == {i \in 1..Len(field_types) : matches(field_types[i], line)}

\* The opening lines of the iterations that ran _append_description, in order.
DescriptionCalls ==
    LET appended == SelectSeq(calls, LAMBDA c : c.reader = "_append_description")
    IN [k \in 1..Len(appended) |-> OpeningLine(appended[k])]

\* C14: the registry is in the order type, param, vartype, var, exception,
\* return, rtype; the iteration that starts at a line runs the reader of the
\* first field type in that order whose names match the line, and no second
\* iteration starts at that line; a line that begins with ":vartype" is read
\* by the attribute-type reader; a line that matches no field type runs no
\* reader and is appended to the description.
C14_FirstMatchInRegistryOrder ==
    /\ [i \in 1..Len(field_types) |-> field_types[i].reader] = RegistryOrder
    /\ \A k \in 1..Len(calls) :
          LET line == OpeningLine(calls[k])
              hits == Matching(line)
          IN /\ hits # {} =>
                  \E i \in hits : /\ \A j \in hits : i <= j
                                  /\ calls[k].reader = RegistryOrder[i]
             /\ hits = {} => calls[k].reader = "_append_description"
             /\ startswith(line, <<":", "v", "a", "r", "t", "y", "p", "e">>) =>
                  calls[k].reader = "_read_attribute_type"
             /\ \A h \in 1..Len(calls) :
                  calls[h].start_index = calls[k].start_index => h = k
    /\ parsed_values.description = DescriptionCalls

\* A parse has read a `:vartype` line, which matches the `:var` field type
\* too, and a line that matches no field type.
C14_Witness ==
    /\ ScanDone
    /\ \E k \in 1..Len(calls) :
          /\ OpeningLine(calls[k]) = L_vartype
          /\ Cardinality(Matching(L_vartype)) = 2
          /\ calls[k].reader = "_read_attribute_type"
    /\ \E k \in 1..Len(calls) : calls[k].reader = "_append_description"

---------------------------------------------------------------------------
(* The name-keyed maps of the accumulator.                                 *)

\* A loop iteration runs in this step; ThisCall is its entry in the history.
Iterates == Len(calls') = Len(calls) + 1

ThisCall == calls'[Len(calls')]

\* Call c is a `:var` directive that parsed, with 2 tokens.
WellFormedVar(c) ==
    /\ c.reader = "_read_attribute"
    /\ ~c.invalid
    /\ Len(c.directive_parts) = 2

\* Call c is a `:vartype` directive that parsed, with 2 tokens.
WellFormedVartype(c) ==
    /\ c.reader = "_read_attribute_type"
    /\ ~c.invalid
    /\ Len(c.directive_parts) = 2

\* The step records an error and leaves the value of `key` in the map as it was.
ErrorAndKept(before, after, key) ==
    /\ Len(errors') > Len(errors)
    /\ dict_get(after, key) = dict_get(before, key)

\* C15, as stated: in each of the four name-keyed maps (parameters, staged
\* parameter types, attributes, staged attribute types), a well-formed
\* directive for a name already in the map records an error and leaves the
\* value stored under that name as it was.
C15_DuplicateNameNotOverwritten ==
    [][ Iterates =>
          LET c == ThisCall
              x == ParamName(c)
          IN /\ (WellFormedParam(c) /\ dict_has(parsed_values.parameters, x)) =>
                   ErrorAndKept(parsed_values.parameters, parsed_values'.parameters, x)
             /\ (WellFormedType(c) /\ dict_has(parsed_values.param_types, x)) =>
                   ErrorAndKept(parsed_values.param_types, parsed_values'.param_types, x)
             /\ (WellFormedVar(c) /\ dict_has(parsed_values.attributes, x)) =>
                   ErrorAndKept(parsed_values.attributes, parsed_values'.attributes, x)
             /\ (WellFormedVartype(c) /\ dict_has(parsed_values.attribute_types, x)) =>
                   ErrorAndKept(parsed_values.attribute_types,
                                parsed_values'.attribute_types, x) ]_vars

\* The step replaces the staged type of `key` by the type it consolidated, and
\* records one error exactly when `key` is registered in `registered` with an
\* annotation.
StagedReplaced(before, after, registered, key) ==
    /\ dict_get(after, key) = last_type'.consolidated
    /\ \A other \in {before[i].key : i \in 1..Len(before)} \ {key} :
          dict_get(after, other) = dict_get(before, other)
    /\ IF dict_has(registered, key) /\ dict_get(registered, key).annotation # empty
       THEN Len(errors') = Len(errors) + 1
       ELSE errors' = errors

\* C15, amended: a well-formed `:param` or `:var` directive for a name already
\* in the parameter or attribute map records an error and leaves the stored
\* value as it was; a well-formed `:type` or `:vartype` directive for a name
\* already in the staged type map replaces the staged type by its own, and
\* records an error only when the parameter or attribute of that name is
\* registered with a non-empty annotation.
C15_RegisteredKeptStagedReplaced ==
    [][ Iterates =>
          LET c == ThisCall
              x == ParamName(c)
          IN /\ (WellFormedParam(c) /\ dict_has(parsed_values.parameters, x)) =>
                   ErrorAndKept(parsed_values.parameters, parsed_values'.parameters, x)
             /\ (WellFormedVar(c) /\ dict_has(parsed_values.attributes, x)) =>
                   ErrorAndKept(parsed_values.attributes, parsed_values'.attributes, x)
             /\ (WellFormedType(c) /\ dict_has(parsed_values.param_types, x)) =>
                   StagedReplaced(parsed_values.param_types, parsed_values'.param_types,
                                  parsed_values.parameters, x)
             /\ (WellFormedVartype(c) /\ dict_has(parsed_values.attribute_types, x)) =>
                   StagedReplaced(parsed_values.attribute_types,
                                  parsed_values'.attribute_types,
                                  parsed_values.attributes, x) ]_vars

\* Two `:vartype v:` directives with different types have been read and no
\* `:var v:`: the second type is the one staged and no error is recorded.
C15_Witness ==
    /\ ScanDone
    /\ errors = <<>>
    /\ \E h, k \in 1..Len(calls) :
          /\ h < k
          /\ WellFormedVartype(calls[h])
          /\ WellFormedVartype(calls[k])
          /\ ParamName(calls[h]) = ParamName(calls[k])
          /\ calls[h].value # calls[k].value
          /\ dict_get(parsed_values.attribute_types, ParamName(calls[k]))
                = consolidate_descriptive_type(calls[k].value)

---------------------------------------------------------------------------
(* The return value and its type.                                          *)

\* Call c is a `:returns:` directive that parsed.
ParsedReturn(c) == c.reader = "_read_return" /\ ~c.invalid

\* Call c is a `:rtype:` directive that parsed.
ParsedReturnType(c) == c.reader = "_read_return_type" /\ ~c.invalid

\* The return annotation of the signature, `empty` when there is no signature
\* or it declares none.
SignatureReturn ==
    IF typed_context.signature = <<>> THEN empty
    ELSE typed_context.signature[1].return_annotation

DuplicateReturnType ==
    [message |-> "Duplicate type information for return", about |-> <<>>]

\* C16: a `:rtype:` directive fills the annotation of a return object that has
\* none, with the consolidated type and without error; it records one
\* duplicate-information error and leaves the annotation of a return object
\* that has one; with no return object it records no error and only stages
\* the type, which stays staged until the next `:returns:` directive, whose
\* return object gets it as annotation when the signature declares no return
\* annotation.
C16_ReturnTypeBackfillsOrStages ==
    [][ Iterates =>
          LET c == ThisCall
              return_value == parsed_values.return_value
              consolidated == last_type'.consolidated
          IN /\ (ParsedReturnType(c) /\ return_value # <<>>
                                     /\ return_value[1].annotation = empty) =>
                   /\ parsed_values'.return_value =
                         <<[return_value[1] EXCEPT !.annotation = consolidated]>>
                   /\ errors' = errors
             /\ (ParsedReturnType(c) /\ return_value # <<>>
                                     /\ return_value[1].annotation # empty) =>
                   /\ parsed_values'.return_value = return_value
                   /\ errors' = Append(errors, DuplicateReturnType)
             /\ (ParsedReturnType(c) /\ return_value = <<>>) =>
                   /\ parsed_values'.return_value = <<>>
                   /\ parsed_values'.return_type = consolidated
                   /\ errors' = errors
             /\ ~ParsedReturnType(c) =>
                   parsed_values'.return_type = parsed_values.return_type
             /\ (ParsedReturn(c) /\ parsed_values.return_type # None
                                 /\ SignatureReturn = empty) =>
                   parsed_values'.return_value[1].annotation = parsed_values.return_type ]_vars

\* A parse has returned a RETURN section whose annotation is the type of a
\* `:rtype:` directive read before the `:returns:` directive.
C16_Witness ==
    /\ pc = "returned"
    /\ SignatureReturn = empty
    /\ \E h, k \in 1..Len(calls) :
          /\ h < k
          /\ ParsedReturnType(calls[h])
          /\ ParsedReturn(calls[k])
    /\ HasSection("RETURN")
    /\ SectionValue("RETURN").annotation = last_type.consolidated
    /\ errors = <<>>

\* The consolidated type of the last `:rtype:` directive read so far, None
\* when there is none.
MostRecentReturnType ==
    LET read == {k \in 1..Len(calls) : ParsedReturnType(calls[k])}
    IN IF read = {} THEN None
       ELSE consolidate_descriptive_type(
               calls[CHOOSE k \in read : \A j \in read : k >= j].value)

\* C17: the return object a `:returns:` directive creates has the directive's
\* value as description and as annotation the return annotation of the
\* signature when there is one, else the type of the most recent `:rtype:`
\* directive, else the declared type of the context, else `empty`; it
\* replaces a return object created before, and no error is recorded.
C17_ReturnAnnotationPrecedence ==
    [][ (Iterates /\ ParsedReturn(ThisCall)) =>
          LET expected == IF SignatureReturn # empty THEN SignatureReturn
                          ELSE IF MostRecentReturnType # None THEN MostRecentReturnType
                          ELSE typed_context.annotation
          IN /\ parsed_values'.return_value =
                   <<AnnotatedObject(expected, ThisCall.value)>>
             /\ errors' = errors ]_vars

\* Two `:returns:` directives with different values have been read: the
\* return object is that of the second and no error is recorded.
C17_Witness ==
    /\ ScanDone
    /\ errors = <<>>
    /\ \E h, k \in 1..Len(calls) :
          /\ h < k
          /\ ParsedReturn(calls[h])
          /\ ParsedReturn(calls[k])
          /\ calls[h].value # calls[k].value
          /\ parsed_values.return_value[1].description = calls[k].value

---------------------------------------------------------------------------
(* Exceptions, and directives that do not parse (SpecFaulty).              *)

\* Call c is an exception directive that parsed, with 2 tokens.
WellFormedRaise(c) ==
    /\ c.reader = "_read_exception"
    /\ ~c.invalid
    /\ Len(c.directive_parts) = 2

\* One entry per well-formed exception directive read so far, in order: the
\* exception name as annotation, the value as description.
ExceptionsRead ==
    LET raised == SelectSeq(calls, WellFormedRaise)
    IN [k \in 1..Len(raised) |->
          AnnotatedObject(raised[k].directive_parts[2], raised[k].value)]

\* C18: the exception list is the sequence of the well-formed exception
\* directives read, in order, name as annotation and value as description,
\* and it is the EXCEPTIONS section when the parse returns; reading one
\* appends its entry and records no error, whether or not the type is already
\* in the list.
C18_ExceptionsInOrder ==
    [][ /\ (parsed_values.exceptions = ExceptionsRead)'
        /\ (pc = "returned" /\ ExceptionsRead # <<>> =>
               SectionValue("EXCEPTIONS") = ExceptionsRead)'
        /\ (Iterates /\ WellFormedRaise(ThisCall)) =>
               /\ Len(parsed_values'.exceptions) = Len(parsed_values.exceptions) + 1
               /\ errors' = errors ]_vars

\* Two exception directives for the same type and one with three tokens have
\* been read: the list has the two entries and the only error is that of the
\* third directive.
C18_Witness ==
    /\ ScanDone
    /\ Len(parsed_values.exceptions) = 2
    /\ parsed_values.exceptions[1].annotation = parsed_values.exceptions[2].annotation
    /\ \E k \in 1..Len(calls) :
          /\ calls[k].reader = "_read_exception"
          /\ Len(calls[k].directive_parts) = 3
    /\ Len(errors) = 1

\* Call c is a directive whose logical line has fewer than two ":".
Malformed(c) == c.reader # "_append_description" /\ c.invalid

\* Call c is a directive that parsed with a token count its kind does not
\* take: not 2 or 3 for param, not 2 for type, var, vartype and exception.
WrongTokenCount(c) ==
    /\ ~c.invalid
    /\ \/ c.reader = "_read_parameter" /\ Len(c.directive_parts) \notin {2, 3}
       \/ /\ c.reader \in { "_read_parameter_type", "_read_attribute",
                            "_read_attribute_type", "_read_exception" }
          /\ Len(c.directive_parts) # 2

Faulty(c) == Malformed(c) \/ WrongTokenCount(c)

\* The lines read so far, without the lines of the faulty directives.
SoundLines ==
    LET kept == {i \in 1..Len(lines) :
                    \E k \in 1..Len(calls) :
                        /\ ~Faulty(calls[k])
                        /\ calls[k].start_index < i
                        /\ i <= calls[k].next_index + 1}
        order == SelectSeq([i \in 1..Len(lines) |-> i], LAMBDA i : i \in kept)
    IN [j \in 1..Len(order) |-> lines[order[j]]]

\* The accumulator is what the scan of the lines read so far, without the
\* lines of the faulty directives, leaves.
AsIfFaultyLinesAbsent ==
    parsed_values = scan_loop(ParsedValues, typed_context, SoundLines, 0)

\* C19: a directive that is malformed or has a wrong token count records one
\* error and leaves the accumulator as it was, and the scan goes on after its
\* last line; before every iteration of the scan and when the scan ends, what
\* is registered is what would be if the lines of those directives were not
\* in the docstring.
C19_FaultyDirectiveSkipped ==
    [][ /\ (Iterates /\ Faulty(ThisCall)) =>
               /\ Len(errors') = Len(errors) + 1
               /\ SubSeq(errors', 1, Len(errors)) = errors
               /\ parsed_values' = parsed_values
               /\ ThisCall.next_index >= ThisCall.start_index
               /\ curr_line_index' = ThisCall.next_index + 1
        /\ pc = "scan" => AsIfFaultyLinesAbsent ]_vars

\* A `:type` directive with three tokens and then a well-formed `:param`
\* directive for the same name have been read: one error is recorded and the
\* parameter is registered.
C19_Witness ==
    /\ ScanDone
    /\ \E h, k \in 1..Len(calls) :
          /\ h < k
          /\ WrongTokenCount(calls[h])
          /\ calls[h].reader = "_read_parameter_type"
          /\ WellFormedParam(calls[k])
          /\ calls[h].directive_parts[2] = ParamName(calls[k])
          /\ dict_has(parsed_values.parameters, ParamName(calls[k]))
    /\ Len(SoundLines) < Len(lines)
    /\ Len(errors) = 1

---------------------------------------------------------------------------
(* The lines of the docstring and the iterations that consume them.        *)

\* The iterations whose lines, from the opening line to the last continuation
\* line, include line i.
Consumers(i) ==
    {k \in 1..Len(calls) : calls[k].start_index <= i /\ i <= calls[k].next_index}

\* C20: every line before the cursor is consumed by exactly one iteration,
\* which appended that line alone to the description or ran one reader on it
\* and its continuation lines, whose text is the text the reader parsed; no
\* iteration consumes a line at or past the cursor; when the scan ends the
\* cursor is at the end of the lines, so no line is skipped and none is
\* processed twice.
C20_EveryLineConsumedOnce ==
    /\ \A i \in 0..(curr_line_index - 1) : Cardinality(Consumers(i)) = 1
    /\ \A i \in curr_line_index..(Len(lines) - 1) : Consumers(i) = {}
    /\ \A k \in 1..Len(calls) :
          LET c == calls[k]
          IN /\ c.start_index <= c.next_index
             /\ c.next_index < Len(lines)
             /\ IF c.reader = "_append_description"
                THEN c.next_index = c.start_index
                ELSE c.line = JoinedBySpaces(lines, c.start_index, c.next_index)
    /\ ScanDone => curr_line_index = Len(lines)

\* A parse has returned after a description line and a directive with a
\* continuation line: two iterations consumed the three lines.
C20_Witness ==
    /\ pc = "returned"
    /\ Len(lines) = 3
    /\ Len(calls) = 2
    /\ calls[1].reader = "_append_description"
    /\ calls[2].reader # "_append_description"
    /\ calls[2].next_index = calls[2].start_index + 1

---------------------------------------------------------------------------
(* The registered parameters and attributes over one parse.                *)

\* The names of the calls that satisfy Registers, each at its first call.
FirstSeen(Registers(_)) ==
    LET first == {k \in 1..Len(calls) :
                    /\ Registers(calls[k])
                    /\ \A h \in 1..(k - 1) :
                          Registers(calls[h]) => ParamName(calls[h]) # ParamName(calls[k])}
        order == SelectSeq([k \in 1..Len(calls) |-> k], LAMBDA k : k \in first)
    IN [j \in 1..Len(order) |-> ParamName(calls[order[j]])]

Keys(d) == [i \in 1..Len(d) |-> d[i].key]

\* Entry i of the map is after the step what it was before, or it had no
\* annotation, the step read a well-formed type directive for its name, and
\* only its annotation changed, to the type the step consolidated.
EntryKeptOrFilled(before, after, i, Types(_)) ==
    /\ after[i].key = before[i].key
    /\ after[i].value.name = before[i].value.name
    /\ \/ after[i].value = before[i].value
       \/ /\ before[i].value.annotation = empty
          /\ Types(ThisCall)
          /\ ParamName(ThisCall) = before[i].key
          /\ after[i].value = [before[i].value EXCEPT !.annotation = last_type'.consolidated]

\* The step keeps every entry of the map in its place, and adds at most one,
\* last, which it does exactly when it read a well-formed registering
\* directive for a name not yet in the map.
MapGrowsInOrder(before, after, Registers(_), Types(_)) ==
    /\ Len(after) >= Len(before)
    /\ \A i \in 1..Len(before) : EntryKeptOrFilled(before, after, i, Types)
    /\ IF Registers(ThisCall) /\ ~dict_has(before, ParamName(ThisCall))
       THEN /\ Len(after) = Len(before) + 1
            /\ after[Len(after)].key = ParamName(ThisCall)
            /\ after[Len(after)].value.name = ParamName(ThisCall)
       ELSE Len(after) = Len(before)

\* C21: within one parse, a step leaves every registered Parameter and
\* Attribute as it was, name, description, default, kind and a non-empty
\* annotation included, except that a `:type` or `:vartype` directive for its
\* name fills an empty annotation; entries are added last and only by the
\* first `:param` or `:var` directive for a name, so the parameters and the
\* attributes are in the first-seen order of those directives and a type
\* directive changes neither their number nor their order.
C21_RegisteredEntriesStable ==
    [][ /\ Iterates =>
              /\ MapGrowsInOrder(parsed_values.parameters, parsed_values'.parameters,
                                 WellFormedParam, WellFormedType)
              /\ MapGrowsInOrder(parsed_values.attributes, parsed_values'.attributes,
                                 WellFormedVar, WellFormedVartype)
        /\ (pc = "scan" /\ ~Iterates) => parsed_values' = parsed_values
        /\ (Keys(parsed_values.parameters) = FirstSeen(WellFormedParam))'
        /\ (Keys(parsed_values.attributes) = FirstSeen(WellFormedVar))' ]_vars

\* A parameter registered without annotation has had it filled by a `:type`
\* directive, and a second `:type` directive for it has been read since: the
\* annotation is that of the first, and the second is reported.
C21_Witness ==
    /\ ScanDone
    /\ \E h, j, k \in 1..Len(calls) :
          /\ h < j /\ j < k
          /\ WellFormedParam(calls[h])
          /\ ~HasInlineType(calls[h])
          /\ WellFormedType(calls[j])
          /\ WellFormedType(calls[k])
          /\ ParamName(calls[j]) = ParamName(calls[h])
          /\ ParamName(calls[k]) = ParamName(calls[h])
          /\ dict_has(parsed_values.parameters, ParamName(calls[h]))
          /\ dict_get(parsed_values.parameters, ParamName(calls[h])).annotation
                = consolidate_descriptive_type(calls[j].value)
          /\ ConflictErrors(ParamName(calls[h])) = 1
          /\ SignatureAnnotation(ParamName(calls[h])) = empty

===========================================================================
